---- MODULE Spec2Model ----
(***************************************************************************)
(* Model of the polytrader LangGraph workflow                              *)
(* (backend/src/polytrader/graph.py, state.py, configuration.py, tools.py).*)
(*                                                                         *)
(* Reading of the source.  The workflow state is one mutable record: a     *)
(* node's assignments `state.x = v` and the keys of the dict it returns    *)
(* are both written to that record, and a routing function that assigns    *)
(* `state.loop_step = 0` changes the record the next node sees.  graph.py  *)
(* reads and writes `external_research_info`, `decision` and `proceed`,    *)
(* which state.py does not declare; they are modelled as fields of the     *)
(* record, as graph.py uses them.  One action is one graph node followed   *)
(* by the conditional edge registered for it.                              *)
(*                                                                         *)
(* Python values: None is PyNone, a missing dict key is Absent, a string   *)
(* is Str(v), a number is Num(v).  Floats are integers: confidence is in   *)
(* hundredths (0.9 is Num(90)), sizes and funds are whole units.           *)
(***************************************************************************)
EXTENDS Integers, Sequences, FiniteSets, TLC

(***************************************************************************)
(* Bounds of the model                                                     *)
(***************************************************************************)
\* longest conversation log explored
MaxMsgs == 9
\* max_loops is configurable; the general specification explores 1..MaxLoopsBound
MaxLoopsBound == 2

\* Configuration.max_loops default
DefaultMaxLoops == 6

(***************************************************************************)
(* Python values                                                           *)
(***************************************************************************)
PyNone == [t |-> "none"]
Absent == [t |-> "absent"]
Str(v) == [t |-> "str", v |-> v]
Num(v) == [t |-> "num", v |-> v]
Dict(keys) == [t |-> "dict", keys |-> keys]

\* truthiness of an Optional[dict]: None and {} are falsy
Truthy(d) == d.t = "dict" /\ d.keys # {}

Phases == {"research", "analysis", "trade"}

(***************************************************************************)
(* Messages                                                                *)
(***************************************************************************)
HumanMessage(text, mentions) == [type |-> "human", text |-> text, mentions |-> mentions]
AIMessage(tool_calls) == [type |-> "ai", tool_calls |-> tool_calls]
\* message contents are sets of <<text, subject>> lines; a validator's
\* rejection text is its fixed heading, which the judge's optional
\* improvement_instructions follow
Text(line) == { <<line, "">> }
ToolMessage(tool_call_id, name, status, content) ==
    [type |-> "tool", tool_call_id |-> tool_call_id, name |-> name,
     status |-> status, content |-> content]

\* variant: without the reducer a returned `messages` value replaces the log
add_messages_overwrite(s, msgs) == [s EXCEPT !.messages = msgs]

\* State.messages is Annotated[..., add_messages]: returned messages are appended
add_messages(s, msgs) == [s EXCEPT !.messages = @ \o msgs]

Last(seq) == seq[Len(seq)]

\* index of the first call named `name` in a response, 0 when there is none
FirstIndex(calls, name) ==
    LET hits == {i \in 1..Len(calls) : calls[i].name = name}
    IN  IF hits = {} THEN 0 ELSE CHOOSE i \in hits : \A j \in hits : i <= j

\* the reasoning engine's raw answer: one tool call per name of `shape`,
\* terminal calls carrying the candidate `args`; ids are unique in the log
Response(s, shape, terminal, args) ==
    [i \in 1..Len(shape) |->
        [name |-> shape[i],
         id   |-> <<Len(s.messages) + 1, i>>,
         args |-> IF shape[i] = terminal THEN args ELSE PyNone]]

\* answers the engine can give when bound to one capability and the terminal tool
Shapes(other, terminal) ==
    { <<>>, <<other>>, <<other, other>>, <<terminal>>,
      <<terminal, other>>, <<other, terminal>>, <<terminal, terminal>> }

\* the turns explored: every shape with each candidate of `full`, and the
\* single terminal call with each candidate of `degenerate`
Turns(shapes, terminal, full, degenerate) ==
    { <<shape, args>> : shape \in shapes, args \in full }
    \cup { <<(<<terminal>>), args>> : args \in degenerate }

(***************************************************************************)
(* State                                                                   *)
(***************************************************************************)
VARIABLES
    pc,             \* the graph node about to run, "__end__" or "__error__"
    state,          \* polytrader.state.State
    configuration,  \* polytrader.configuration.Configuration
    hist            \* history of the run, for stating properties; an executor
                    \* hands the engine its prompt and the whole of
                    \* state.messages, recorded as hist.handed, the length
                    \* of the log handed over; once a call of the
                    \* reasoning engine has raised, hist.raised is the
                    \* node that made it and hist.prev is "__raised__"

vars == <<pc, state, configuration, hist>>

MarketIds == {"None", "abc", "123"}
Tokens == {"t1", "t2"}

\* InputState.positions: None, {} or a map token_id -> held size
Positions(held) == [t |-> "dict", held |-> held]
AllPositionsValues ==
    { PyNone,
      Positions([k \in {} |-> 0]),
      Positions([k \in {"t1"} |-> 10]),
      Positions([k \in {"t1"} |-> 0]),
      Positions([k \in {"t1"} |-> -5]),
      Positions([k \in {"t1", "t2"} |-> IF k = "t1" THEN 0 ELSE 10]) }

\* the positions explored by the workflow specification
PositionsValues ==
    { PyNone, Positions([k \in {} |-> 0]), Positions([k \in {"t1"} |-> 10]) }

FundsValues == {10}

InitialState(market_id, positions, available_funds) ==
    [ market_id |-> market_id,
      positions |-> positions,
      available_funds |-> available_funds,
      messages |-> <<>>,
      loop_step |-> 0,
      market_data |-> PyNone,
      research_report |-> PyNone,
      external_research_info |-> PyNone,
      trade_decision |-> PyNone,
      analysis_info |-> PyNone,
      trade_info |-> PyNone,
      confidence |-> PyNone,
      market_details |-> PyNone,
      orderbook_data |-> PyNone,
      decision |-> "None",
      proceed |-> "None" ]

InitialHist ==
    [ prev |-> "__start__",
      provider |-> "none",
      fetches |-> 0,
      execs |-> [p \in Phases |-> 0],
      tool_runs |-> 0,
      validations |-> [p \in Phases |-> 0],
      accepted |-> {},
      verdict |-> FALSE,
      offered |-> {},
      handed |-> 0,
      raised |-> "none" ]

Init ==
    /\ pc = "fetch_market_data"
    /\ \E m \in MarketIds, p \in PositionsValues, f \in FundsValues :
           state = InitialState(m, p, f)
    /\ \E n \in 1..MaxLoopsBound : configuration = [max_loops |-> n]
    /\ hist = InitialHist

\* the model bound: a step that appends k messages is explored only below MaxMsgs
Room(k) == Len(state.messages) + k <= MaxMsgs

(***************************************************************************)
(* Node: fetch_market_data, and route_after_fetch                          *)
(***************************************************************************)
\* what gamma_client.get_market does for an integer id (external provider)
ProviderOutcomes ==
    {"full", "partial", "empty", "bad_clob", "raise_with_id", "raise_plain"}

\* a str holding the JSON text of a list
Json(list) == [t |-> "json", v |-> list]
List(seq) == [t |-> "list", v |-> seq]

\* the dict get_market returns: its keys, and the values of the two keys
\* that fetch_market_data converts
MarketJson(keys, id, clobTokenIds) ==
    [t |-> "dict", keys |-> keys, id |-> id, clobTokenIds |-> clobTokenIds]

RawSnapshot(out) ==
    IF out = "full"
    THEN MarketJson({"id", "question", "description", "outcomes", "clobTokenIds"},
                    Num(123), Json(<<Num(11), Str("22")>>))
    ELSE IF out = "partial" THEN MarketJson({"id"}, Num(123), Absent)
    ELSE IF out = "bad_clob" THEN MarketJson({"id", "clobTokenIds"}, Num(123), Str("[11,"))
    ELSE MarketJson({}, Absent, Absent)

\* str(x)
PyStr(x) == IF x.t = "str" THEN x ELSE Str(ToString(x.v))

\* json.loads(x) raises a ValueError (JSONDecodeError) on text that is not
\* JSON, a TypeError on a value that is not text
json_loads_raises(x) ==
    IF x.t = "json" THEN "no" ELSE IF x.t = "str" THEN "ValueError" ELSE "TypeError"

\* market_json after the two conversions
Converted(market_json) ==
    [market_json EXCEPT
        !.id = IF @ = Absent THEN @ ELSE PyStr(@),
        !.clobTokenIds = IF @ = Absent THEN @
                         ELSE List([i \in 1..Len(@.v) |-> PyStr(@.v[i])])]

Snapshot(out) == Converted(RawSnapshot(out))

\* the exception the conversion of clobTokenIds raises, "no" when none
ConversionRaises(market_json) ==
    IF market_json.clobTokenIds = Absent THEN "no"
    ELSE json_loads_raises(market_json.clobTokenIds)

IsIntegerId(market_id) == market_id \in {"123"}

\* variant: the provider hands back the dict it returned before, which the
\* previous call has already converted in place
fetch_market_data_shared_snapshot(s, out) ==
    LET s1 == [s EXCEPT !.loop_step = @ + 1]
        mid == s.market_id
        market_json == IF s.market_data # PyNone THEN s.market_data ELSE RawSnapshot(out)
    IN  IF mid = "None"
        THEN [add_messages(s1, <<HumanMessage("No market_id provided; skipping market data fetch.", {})>>)
                EXCEPT !.proceed = "False"]
        ELSE IF ~IsIntegerId(mid) \/ ConversionRaises(market_json) = "ValueError"
        THEN [add_messages(s1, <<HumanMessage("Invalid market ID format", {mid})>>)
                EXCEPT !.proceed = "False"]
        ELSE IF \/ out \in {"raise_with_id", "raise_plain"}
                \/ ConversionRaises(market_json) = "TypeError"
        THEN [add_messages(s1, <<HumanMessage("Error fetching market data",
                                   IF out = "raise_with_id" THEN {mid} ELSE {})>>)
                EXCEPT !.proceed = "False"]
        ELSE [add_messages(s1, <<HumanMessage("Fetched market data", {mid})>>)
                EXCEPT !.proceed = "True", !.market_data = Converted(market_json)]

\* variant: the snapshot's id is written back over the input market_id
fetch_market_data_rewrites_market_id(s, out) ==
    LET s1 == [s EXCEPT !.loop_step = @ + 1]
        mid == s.market_id
    IN  IF mid = "None"
        THEN [add_messages(s1, <<HumanMessage("No market_id provided; skipping market data fetch.", {})>>)
                EXCEPT !.proceed = "False"]
        ELSE IF ~IsIntegerId(mid) \/ ConversionRaises(RawSnapshot(out)) = "ValueError"
        THEN [add_messages(s1, <<HumanMessage("Invalid market ID format", {mid})>>)
                EXCEPT !.proceed = "False"]
        ELSE IF \/ out \in {"raise_with_id", "raise_plain"}
                \/ ConversionRaises(RawSnapshot(out)) = "TypeError"
        THEN [add_messages(s1, <<HumanMessage("Error fetching market data",
                                   IF out = "raise_with_id" THEN {mid} ELSE {})>>)
                EXCEPT !.proceed = "False"]
        ELSE [add_messages(s1, <<HumanMessage("Fetched market data", {mid})>>)
                EXCEPT !.proceed = "True", !.market_data = Snapshot(out),
                       !.market_id = "snapshot id"]

fetch_market_data(s, out) ==
    LET s1 == [s EXCEPT !.loop_step = @ + 1]
        mid == s.market_id
    IN  IF mid = "None"
        THEN [add_messages(s1, <<HumanMessage("No market_id provided; skipping market data fetch.", {})>>)
                EXCEPT !.proceed = "False"]
        ELSE IF ~IsIntegerId(mid) \/ ConversionRaises(RawSnapshot(out)) = "ValueError"
        THEN [add_messages(s1, <<HumanMessage("Invalid market ID format", {mid})>>)
                EXCEPT !.proceed = "False"]
        ELSE IF \/ out \in {"raise_with_id", "raise_plain"}
                \/ ConversionRaises(RawSnapshot(out)) = "TypeError"
        THEN [add_messages(s1, <<HumanMessage("Error fetching market data",
                                   IF out = "raise_with_id" THEN {mid} ELSE {})>>)
                EXCEPT !.proceed = "False"]
        ELSE [add_messages(s1, <<HumanMessage("Fetched market data", {mid})>>)
                EXCEPT !.proceed = "True", !.market_data = Snapshot(out)]

\* variant: the research phase is entered whatever was fetched
route_after_fetch_always_research(s) ==
    [goto |-> "research_agent", state |-> [s EXCEPT !.loop_step = 0]]

route_after_fetch(s) ==
    IF ~Truthy(s.market_data)
    THEN [goto |-> "__end__", state |-> s]
    ELSE [goto |-> "research_agent", state |-> [s EXCEPT !.loop_step = 0]]

FetchMarketData ==
    /\ pc = "fetch_market_data"
    /\ \E out \in ProviderOutcomes :
         LET r == route_after_fetch(fetch_market_data(state, out))
         IN  /\ state' = r.state
             /\ pc' = r.goto
             /\ hist' = [hist EXCEPT !.prev = "fetch_market_data",
                                      !.provider = out,
                                      !.fetches = @ + 1]
    /\ UNCHANGED configuration

(***************************************************************************)
(* Research phase                                                          *)
(***************************************************************************)
\* candidate arguments of ExternalResearchInfo: a filled report, or {}
ResearchArgs == { Dict({"research_summary", "confidence", "sources"}) }
EmptyArgs == { Dict({}) }

\* market_data["question"], ["description"], ["outcomes"] raise KeyError when missing
HasPromptFields(s) ==
    s.market_data.t = "dict"
    /\ {"question", "description", "outcomes"} \subseteq s.market_data.keys

\* variant: the response is appended as the engine gave it
research_agent_node_unfiltered(s, response) ==
    LET i == FirstIndex(response, "ExternalResearchInfo")
        info == IF i = 0 THEN PyNone ELSE response[i].args
        response_messages ==
            IF response = <<>>
            THEN <<AIMessage(response),
                   HumanMessage("Please respond by calling one of the provided tools.", {})>>
            ELSE <<AIMessage(response)>>
    IN  [add_messages(s, response_messages)
            EXCEPT !.external_research_info = info,
                   !.loop_step = s.loop_step + 1]

research_agent_node(s, response) ==
    LET i == FirstIndex(response, "ExternalResearchInfo")
        info == IF i = 0 THEN PyNone ELSE response[i].args
        tool_calls == IF info # PyNone
                      THEN SelectSeq(response, LAMBDA tc : tc.name = "ExternalResearchInfo")
                      ELSE response
        response_messages ==
            IF tool_calls = <<>>
            THEN <<AIMessage(tool_calls),
                   HumanMessage("Please respond by calling one of the provided tools.", {})>>
            ELSE <<AIMessage(tool_calls)>>
    IN  [add_messages(s, response_messages)
            EXCEPT !.external_research_info = info,
                   !.loop_step = s.loop_step + 1]

\* variant: any tool call sends the turn to the validator
route_after_research_agent_any_call(s) ==
    LET last_msg == Last(s.messages)
    IN  IF last_msg.type # "ai" THEN "research_agent"
        ELSE IF last_msg.tool_calls # <<>>
        THEN "reflect_on_research"
        ELSE "research_tools"

route_after_research_agent(s) ==
    LET last_msg == Last(s.messages)
    IN  IF last_msg.type # "ai" THEN "research_agent"
        ELSE IF last_msg.tool_calls # <<>>
                /\ last_msg.tool_calls[1].name = "ExternalResearchInfo"
        THEN "reflect_on_research"
        ELSE "research_tools"

\* what the engine, bound to search_exa and ExternalResearchInfo, can answer
ResearchTurns ==
    Turns(Shapes("search_exa", "ExternalResearchInfo"),
          "ExternalResearchInfo", ResearchArgs, EmptyArgs)

\* variant: a failed engine call is caught and the node is run again
EngineRaises_caught_and_retried(node) ==
    /\ pc' = node
    /\ UNCHANGED state
    /\ hist' = [hist EXCEPT !.prev = "__raised__", !.raised = node]

\* init_model(config) or model.ainvoke(messages) raises: no node and no
\* router catches it, the node returns nothing and has assigned nothing yet
EngineRaises(node) ==
    /\ pc' = "__error__"
    /\ UNCHANGED state
    /\ hist' = [hist EXCEPT !.prev = "__raised__", !.raised = node]

ResearchAgent ==
    /\ pc = "research_agent"
    /\ IF ~HasPromptFields(state)
       THEN \* KeyError while the prompt is formatted, before the engine is called
            /\ pc' = "__error__"
            /\ UNCHANGED state
            /\ hist' = [hist EXCEPT !.prev = "research_agent", !.execs["research"] = @ + 1]
       ELSE \/ EngineRaises("research_agent")
            \/ \E turn \in ResearchTurns :
                 LET s1 == research_agent_node(state,
                               Response(state, turn[1], "ExternalResearchInfo", turn[2]))
                 IN  /\ Len(s1.messages) <= MaxMsgs
                     /\ state' = s1
                     /\ pc' = route_after_research_agent(s1)
                     /\ hist' = [hist EXCEPT !.prev = "research_agent",
                                              !.execs["research"] = @ + 1,
                                              !.handed = Len(state.messages)]
    /\ UNCHANGED configuration

\* langgraph ToolNode over the last AI message: one tool-result message per
\* tool call, in request order; an exception raised by a tool becomes an
\* error-status result.  statuses[i] is the outcome of the i-th call; a tool
\* of `catching` handles its own exceptions and returns an error dict, which
\* ToolNode reports as an ordinary (success-status) result.
\* variant: a call whose tool raised gets no tool-result message
ToolResults_failed_dropped(s, statuses, catching) ==
    LET calls == Last(s.messages).tool_calls
        all == [i \in 1..Len(calls) |->
                   ToolMessage(calls[i].id, calls[i].name,
                               IF calls[i].name \in catching THEN "success" ELSE statuses[i],
                               IF statuses[i] = "success" THEN Text("result") ELSE Text("error"))]
    IN  SelectSeq(all, LAMBDA m : m.status = "success")

\* variant: the results are appended in the order opposite to the requests
ToolResults_reversed(s, statuses, catching) ==
    LET calls == Last(s.messages).tool_calls
        n == Len(calls)
    IN  [i \in 1..n |->
            ToolMessage(calls[n + 1 - i].id, calls[n + 1 - i].name,
                        IF calls[n + 1 - i].name \in catching
                        THEN "success" ELSE statuses[n + 1 - i],
                        IF statuses[n + 1 - i] = "success"
                        THEN Text("result") ELSE Text("error"))]

ToolResults(s, statuses, catching) ==
    LET calls == Last(s.messages).tool_calls
    IN  [i \in 1..Len(calls) |->
            ToolMessage(calls[i].id, calls[i].name,
                        IF calls[i].name \in catching THEN "success" ELSE statuses[i],
                        IF statuses[i] = "success" THEN Text("result") ELSE Text("error"))]

StatusSeqs(n) == [1..n -> {"success", "error"}]

research_tools(s, statuses) == add_messages(s, ToolResults(s, statuses, {}))

ResearchTools ==
    /\ pc = "research_tools"
    /\ Room(Len(Last(state.messages).tool_calls))
    /\ \E statuses \in StatusSeqs(Len(Last(state.messages).tool_calls)) :
         state' = research_tools(state, statuses)
    /\ pc' = "research_agent"
    /\ hist' = [hist EXCEPT !.prev = "research_tools", !.tool_runs = @ + 1]
    /\ UNCHANGED configuration

\* the ValueError guard of the reflect nodes
LastIsAI(s) == s.messages # <<>> /\ Last(s.messages).type = "ai"

\* reflect_on_research_node indexes tool_calls[0] without a fallback
reflect_on_research_raises(s) ==
    ~LastIsAI(s) \/ Last(s.messages).tool_calls = <<>>

reflect_on_research_node(s, is_satisfactory) ==
    LET last_message == Last(s.messages)
        presumed_info == s.external_research_info
    IN  IF is_satisfactory /\ Truthy(presumed_info)
        THEN [add_messages(s, <<ToolMessage(last_message.tool_calls[1].id,
                                    "ExternalResearchInfo", "success", Text("reason"))>>)
                EXCEPT !.external_research_info = presumed_info,
                       !.decision = "proceed_to_analysis"]
        ELSE [add_messages(s, <<ToolMessage(last_message.tool_calls[1].id,
                                    "ExternalResearchInfo", "error",
                                    Text("Research needs improvement"))>>)
                EXCEPT !.decision = "research_more"]

\* variant: a rejected research candidate advances as well
route_after_reflect_on_research_always_advance(s, max_loops) ==
    LET last_msg == IF s.messages # <<>> THEN Last(s.messages) ELSE PyNone
    IN  IF ~("type" \in DOMAIN last_msg /\ last_msg.type = "tool")
        THEN [goto |-> "research_agent", state |-> s]
        ELSE [goto |-> "analysis_agent", state |-> [s EXCEPT !.loop_step = 0]]

\* variant: loop_step is kept when moving on to the analysis agent
route_after_reflect_on_research_no_reset(s, max_loops) ==
    LET last_msg == IF s.messages # <<>> THEN Last(s.messages) ELSE PyNone
    IN  IF ~("type" \in DOMAIN last_msg /\ last_msg.type = "tool")
        THEN [goto |-> "research_agent", state |-> s]
        ELSE IF last_msg.status = "success"
        THEN [goto |-> "analysis_agent", state |-> s]
        ELSE IF s.loop_step >= max_loops
        THEN [goto |-> "__end__", state |-> s]
        ELSE [goto |-> "research_agent", state |-> s]

route_after_reflect_on_research(s, max_loops) ==
    LET last_msg == IF s.messages # <<>> THEN Last(s.messages) ELSE PyNone
    IN  IF ~("type" \in DOMAIN last_msg /\ last_msg.type = "tool")
        THEN [goto |-> "research_agent", state |-> s]
        ELSE IF last_msg.status = "success"
        THEN [goto |-> "analysis_agent", state |-> [s EXCEPT !.loop_step = 0]]
        ELSE IF last_msg.status = "error"
        THEN IF s.loop_step >= max_loops
             THEN [goto |-> "__end__", state |-> s]
             ELSE [goto |-> "research_agent", state |-> s]
        ELSE [goto |-> "research_agent", state |-> s]

\* bookkeeping of a validator run
Validated(phase, node, is_satisfactory, st) ==
    [hist EXCEPT !.prev = node,
                 !.validations[phase] = @ + 1,
                 !.verdict = is_satisfactory,
                 !.accepted = IF Last(st.messages).type = "tool"
                                 /\ Last(st.messages).status = "success"
                              THEN @ \cup {phase} ELSE @]

ReflectOnResearch ==
    /\ pc = "reflect_on_research"
    /\ IF reflect_on_research_raises(state)
       THEN /\ pc' = "__error__"
            /\ UNCHANGED <<state, hist>>
       ELSE \/ EngineRaises("reflect_on_research")
            \/ /\ Room(1)
               /\ \E is_satisfactory \in BOOLEAN :
                    LET s1 == reflect_on_research_node(state, is_satisfactory)
                        r == route_after_reflect_on_research(s1, configuration.max_loops)
                    IN  /\ state' = r.state
                        /\ pc' = r.goto
                        /\ hist' = Validated("research", "reflect_on_research",
                                             is_satisfactory, s1)
    /\ UNCHANGED configuration

(***************************************************************************)
(* Analysis phase                                                          *)
(***************************************************************************)
AnalysisArgs ==
    { Dict({"analysis_summary", "confidence", "market_metrics", "orderbook_analysis",
            "trading_signals", "execution_recommendation"}) }

AnalysisShapes ==
    Shapes("analysis_get_market_details", "AnalysisInfo")
    \cup { <<"analysis_get_multi_level_orderbook">>,
           <<"analysis_get_market_details", "analysis_get_multi_level_orderbook">> }

\* variant: a candidate already stored is kept, the new one is only logged
analysis_agent_node_keeps_first(s, response) ==
    LET i == FirstIndex(response, "AnalysisInfo")
        info == IF i = 0 THEN PyNone ELSE response[i].args
        tool_calls == IF response # <<>> /\ info # PyNone
                      THEN SelectSeq(response, LAMBDA tc : tc.name = "AnalysisInfo")
                      ELSE response
        response_messages ==
            IF tool_calls = <<>>
            THEN <<AIMessage(tool_calls),
                   HumanMessage("Please respond by calling one of the provided tools to gather data before finalizing your analysis.", {})>>
            ELSE <<AIMessage(tool_calls)>>
    IN  [add_messages(s, response_messages)
            EXCEPT !.analysis_info = IF s.analysis_info # PyNone THEN s.analysis_info ELSE info,
                   !.proceed = "True",
                   !.loop_step = s.loop_step + 1]

analysis_agent_node(s, response) ==
    LET i == FirstIndex(response, "AnalysisInfo")
        info == IF i = 0 THEN PyNone ELSE response[i].args
        tool_calls == IF response # <<>> /\ info # PyNone
                      THEN SelectSeq(response, LAMBDA tc : tc.name = "AnalysisInfo")
                      ELSE response
        response_messages ==
            IF tool_calls = <<>>
            THEN <<AIMessage(tool_calls),
                   HumanMessage("Please respond by calling one of the provided tools to gather data before finalizing your analysis.", {})>>
            ELSE <<AIMessage(tool_calls)>>
    IN  [add_messages(s, response_messages)
            EXCEPT !.analysis_info = info,
                   !.proceed = "True",
                   !.loop_step = s.loop_step + 1]

route_after_analysis(s) ==
    LET last_msg == IF s.messages # <<>> THEN Last(s.messages) ELSE PyNone
    IN  IF ~("type" \in DOMAIN last_msg /\ last_msg.type = "ai") THEN "analysis_agent"
        ELSE IF last_msg.tool_calls # <<>>
                /\ last_msg.tool_calls[1].name = "AnalysisInfo"
        THEN "reflect_on_analysis"
        ELSE "analysis_tools"

\* one turn of analysis_agent, the engine's answer drawn from `turns`
AnalysisAgentOver(turns, limit) ==
    /\ pc = "analysis_agent"
    /\ \/ EngineRaises("analysis_agent")
       \/ /\ \E turn \in turns :
               LET s1 == analysis_agent_node(state,
                             Response(state, turn[1], "AnalysisInfo", turn[2]))
               IN  /\ Len(s1.messages) <= limit
                   /\ state' = s1
                   /\ pc' = route_after_analysis(s1)
          /\ hist' = [hist EXCEPT !.prev = "analysis_agent",
                                   !.execs["analysis"] = @ + 1,
                                   !.handed = Len(state.messages)]
    /\ UNCHANGED configuration

\* what the engine, bound to the analysis tools and AnalysisInfo, can answer
AnalysisTurns == Turns(AnalysisShapes, "AnalysisInfo", AnalysisArgs, EmptyArgs)

AnalysisAgent == AnalysisAgentOver(AnalysisTurns, MaxMsgs)

\* analysis_get_market_details stores its result unless the provider call raises;
\* analysis_get_multi_level_orderbook catches its own exceptions and returns
\* an error dict as an ordinary result
RECURSIVE ApplyAnalysisTools(_, _, _, _)
ApplyAnalysisTools(s, calls, statuses, i) ==
    IF i > Len(calls) THEN s
    ELSE LET s1 == IF calls[i].name = "analysis_get_market_details"
                      /\ statuses[i] = "success"
                   THEN [s EXCEPT !.market_details = Dict({"current_prices"})]
                   ELSE IF calls[i].name = "analysis_get_multi_level_orderbook"
                           /\ statuses[i] = "success"
                   THEN [s EXCEPT !.orderbook_data = Dict({"orderbooks"})]
                   ELSE s
         IN  ApplyAnalysisTools(s1, calls, statuses, i + 1)

analysis_tools(s, statuses) ==
    add_messages(ApplyAnalysisTools(s, Last(s.messages).tool_calls, statuses, 1),
                 ToolResults(s, statuses, {"analysis_get_multi_level_orderbook"}))

AnalysisTools ==
    /\ pc = "analysis_tools"
    /\ Room(Len(Last(state.messages).tool_calls))
    /\ \E statuses \in StatusSeqs(Len(Last(state.messages).tool_calls)) :
         state' = analysis_tools(state, statuses)
    /\ pc' = "analysis_agent"
    /\ hist' = [hist EXCEPT !.prev = "analysis_tools", !.tool_runs = @ + 1]
    /\ UNCHANGED configuration

\* tool_call_id=last_message.tool_calls[0]["id"] if last_message.tool_calls else ""
FirstCallId(s) ==
    IF Last(s.messages).tool_calls # <<>> THEN Last(s.messages).tool_calls[1].id ELSE <<>>

\* variant: a rejection is answered without a critique
reflect_on_analysis_node_no_critique(s, is_satisfactory) ==
    LET analysis_info == s.analysis_info
    IN  IF is_satisfactory /\ Truthy(analysis_info)
        THEN [add_messages(s, <<ToolMessage(FirstCallId(s), "Analysis", "success", Text("reason"))>>)
                EXCEPT !.analysis_info = analysis_info,
                       !.decision = "proceed_to_trade"]
        ELSE [add_messages(s, <<ToolMessage(FirstCallId(s), "Analysis", "error", {})>>)
                EXCEPT !.decision = "analysis_more"]

reflect_on_analysis_node(s, is_satisfactory) ==
    LET analysis_info == s.analysis_info
    IN  IF is_satisfactory /\ Truthy(analysis_info)
        THEN [add_messages(s, <<ToolMessage(FirstCallId(s), "Analysis", "success", Text("reason"))>>)
                EXCEPT !.analysis_info = analysis_info,
                       !.decision = "proceed_to_trade"]
        ELSE [add_messages(s, <<ToolMessage(FirstCallId(s), "Analysis", "error",
                                    Text("Analysis needs improvement"))>>)
                EXCEPT !.decision = "analysis_more"]

\* variant: the budget test is `>` instead of `>=`
route_after_reflect_on_analysis_off_by_one(s, max_loops) ==
    LET last_msg == IF s.messages # <<>> THEN Last(s.messages) ELSE PyNone
    IN  IF ~("type" \in DOMAIN last_msg /\ last_msg.type = "tool")
        THEN [goto |-> "analysis_agent", state |-> s]
        ELSE IF last_msg.status = "success"
        THEN [goto |-> "trade_agent", state |-> [s EXCEPT !.loop_step = 0]]
        ELSE IF s.loop_step > max_loops
        THEN [goto |-> "__end__", state |-> s]
        ELSE [goto |-> "analysis_agent", state |-> s]

\* variant: loop_step is kept when moving on to the trade agent
route_after_reflect_on_analysis_no_reset(s, max_loops) ==
    LET last_msg == IF s.messages # <<>> THEN Last(s.messages) ELSE PyNone
    IN  IF ~("type" \in DOMAIN last_msg /\ last_msg.type = "tool")
        THEN [goto |-> "analysis_agent", state |-> s]
        ELSE IF last_msg.status = "success"
        THEN [goto |-> "trade_agent", state |-> s]
        ELSE IF s.loop_step >= max_loops
        THEN [goto |-> "__end__", state |-> s]
        ELSE [goto |-> "analysis_agent", state |-> s]

\* variant: a rejected analysis candidate moves on to the trade agent as well
route_after_reflect_on_analysis_always_advance(s, max_loops) ==
    LET last_msg == IF s.messages # <<>> THEN Last(s.messages) ELSE PyNone
    IN  IF ~("type" \in DOMAIN last_msg /\ last_msg.type = "tool")
        THEN [goto |-> "analysis_agent", state |-> s]
        ELSE [goto |-> "trade_agent", state |-> [s EXCEPT !.loop_step = 0]]

route_after_reflect_on_analysis(s, max_loops) ==
    LET last_msg == IF s.messages # <<>> THEN Last(s.messages) ELSE PyNone
    IN  IF ~("type" \in DOMAIN last_msg /\ last_msg.type = "tool")
        THEN [goto |-> "analysis_agent", state |-> s]
        ELSE IF last_msg.status = "success"
        THEN [goto |-> "trade_agent", state |-> [s EXCEPT !.loop_step = 0]]
        ELSE IF last_msg.status = "error"
        THEN IF s.loop_step >= max_loops
             THEN [goto |-> "__end__", state |-> s]
             ELSE [goto |-> "analysis_agent", state |-> s]
        ELSE [goto |-> "analysis_agent", state |-> s]

\* one run of reflect_on_analysis, the judge's verdict drawn from `verdicts`
ReflectOnAnalysisOver(verdicts, limit) ==
    /\ pc = "reflect_on_analysis"
    /\ IF ~LastIsAI(state)
       THEN /\ pc' = "__error__"
            /\ UNCHANGED <<state, hist>>
       ELSE \/ EngineRaises("reflect_on_analysis")
            \/ /\ Len(state.messages) + 1 <= limit
               /\ \E is_satisfactory \in verdicts :
                    LET s1 == reflect_on_analysis_node(state, is_satisfactory)
                        r == route_after_reflect_on_analysis(s1, configuration.max_loops)
                    IN  /\ state' = r.state
                        /\ pc' = r.goto
                        /\ hist' = Validated("analysis", "reflect_on_analysis",
                                             is_satisfactory, s1)
    /\ UNCHANGED configuration

ReflectOnAnalysis == ReflectOnAnalysisOver(BOOLEAN, MaxMsgs)

(***************************************************************************)
(* Trade phase                                                             *)
(***************************************************************************)
TradeFields == {"side", "reason", "confidence", "market_id", "token_id", "size"}

TradeArgs(side, token_id, size, confidence, reason, market_id) ==
    [t |-> "dict", side |-> side, reason |-> reason, confidence |-> confidence,
     market_id |-> market_id, token_id |-> token_id, size |-> size]

\* dict.get(field) and dict.get(field, default)
Get(d, field) == IF d[field] = Absent THEN PyNone ELSE d[field]
GetOr(d, field, default) == IF d[field] = Absent THEN default ELSE d[field]

\* `if trade_info:` is false for None and for {}
TradeTruthy(d) == d.t = "dict" /\ \E f \in TradeFields : d[f] # Absent

\* candidates the engine submits in the workflow specification
Candidates ==
    { TradeArgs(Str("BUY"), Str("t1"), Num(5), Num(90), Str("r"), Str("123")),
      TradeArgs(Str("BUY"), Str("t1"), Num(20), Num(90), Str("r"), Str("123")),
      TradeArgs(Str("SELL"), Str("t1"), Num(5), Num(90), Str("r"), Str("123")),
      TradeArgs(Str("NO_TRADE"), Str("t1"), Num(0), Num(50), Str("r"), Str("123")) }

\* malformed candidates, submitted as a single terminal call
MalformedCandidates ==
    { TradeArgs(Str("BUY"), Str("t1"), Num(-5), Num(90), Str("r"), Str("123")),
      TradeArgs(Str("BUY"), Str("t1"), Str("5"), Num(90), Str("r"), Str("123")),
      TradeArgs(Str("BUY"), Str("t1"), Num(5), Num(90), Absent, Str("123")),
      TradeArgs(Str("SELL"), Str("t2"), Num(5), Num(90), Str("r"), Str("123")),
      TradeArgs(Str("NO_TRADE"), Str("t1"), Num(0), Num(150), Str("r"), Str("123")),
      TradeArgs(Str("NO_TRADE"), Str("t1"), Num(5), Num(50), Str("r"), Str("123")),
      TradeArgs(Str("NO_TRADE"), Str("t1"), Num(0), PyNone, Str("r"), Str("123")),
      TradeArgs(Absent, Absent, Absent, Absent, Absent, Absent) }

\* float(x) for the confidence argument
FloatRaises(x) == x.t = "none" \/ (x.t = "str" /\ x.v \notin {"0.9"})
Float(x) == IF x.t = "str" THEN Num(90) ELSE x

\* any(position_info.values()) over `state.positions or {}`
user_has_positions(s) ==
    s.positions.t = "dict"
    /\ \E k \in DOMAIN s.positions.held : s.positions.held[k] # 0

\* variant: SELL is offered to nobody
possible_sides_without_sell(s) == {"BUY", "NO_TRADE"}

\* the sides named in the TradeDecision schema handed to the engine
possible_sides(s) ==
    IF user_has_positions(s) THEN {"BUY", "SELL", "NO_TRADE"} ELSE {"BUY", "NO_TRADE"}

trade_agent_node_raises(response) ==
    LET i == FirstIndex(response, "TradeDecision")
    IN  i # 0 /\ FloatRaises(GetOr(response[i].args, "confidence", Num(0)))

\* variant: a trade_decision and confidence already recorded are kept
trade_agent_node_keeps_decision(s, response) ==
    LET i == FirstIndex(response, "TradeDecision")
        trade_info == IF i = 0 THEN PyNone ELSE response[i].args
        tool_calls == IF response # <<>> /\ trade_info # PyNone
                      THEN SelectSeq(response, LAMBDA tc : tc.name = "TradeDecision")
                      ELSE response
        s1 == IF response # <<>> /\ trade_info # PyNone /\ s.trade_decision = PyNone
              THEN [s EXCEPT !.trade_info = trade_info,
                             !.trade_decision = Get(trade_info, "side"),
                             !.confidence = Float(GetOr(trade_info, "confidence", Num(0)))]
              ELSE s
        new_messages ==
            IF tool_calls = <<>>
            THEN <<AIMessage(tool_calls),
                   HumanMessage("Please make your final trade decision by calling the TradeDecision tool ONCE.", {})>>
            ELSE <<AIMessage(tool_calls)>>
    IN  [add_messages(s1, new_messages)
            EXCEPT !.trade_info = trade_info,
                   !.proceed = "True",
                   !.loop_step = s.loop_step + 1]

trade_agent_node(s, response) ==
    LET i == FirstIndex(response, "TradeDecision")
        trade_info == IF i = 0 THEN PyNone ELSE response[i].args
        tool_calls == IF response # <<>> /\ trade_info # PyNone
                      THEN SelectSeq(response, LAMBDA tc : tc.name = "TradeDecision")
                      ELSE response
        s1 == IF response # <<>> /\ trade_info # PyNone
              THEN [s EXCEPT !.trade_info = trade_info,
                             !.trade_decision = Get(trade_info, "side"),
                             !.confidence = Float(GetOr(trade_info, "confidence", Num(0)))]
              ELSE s
        new_messages ==
            IF tool_calls = <<>>
            THEN <<AIMessage(tool_calls),
                   HumanMessage("Please make your final trade decision by calling the TradeDecision tool ONCE.", {})>>
            ELSE <<AIMessage(tool_calls)>>
    IN  [add_messages(s1, new_messages)
            EXCEPT !.trade_info = trade_info,
                   !.proceed = "True",
                   !.loop_step = s.loop_step + 1]

route_after_trade(s) ==
    LET last_msg == IF s.messages # <<>> THEN Last(s.messages) ELSE PyNone
    IN  IF ~("type" \in DOMAIN last_msg /\ last_msg.type = "ai") THEN "trade_agent"
        ELSE IF \E k \in 1..Len(last_msg.tool_calls) :
                    last_msg.tool_calls[k].name = "TradeDecision"
        THEN "reflect_on_trade"
        ELSE "trade_tools"

\* one turn of trade_agent, the engine's answer drawn from `turns`
TradeAgentOver(turns) ==
    /\ pc = "trade_agent"
    /\ \/ EngineRaises("trade_agent")
       \/ /\ \E turn \in turns :
               LET response == Response(state, turn[1], "TradeDecision", turn[2])
                   s1 == trade_agent_node(state, response)
               IN  IF trade_agent_node_raises(response)
                   THEN \* float(...) raises after trade_info and trade_decision
                        \* were assigned
                        /\ pc' = "__error__"
                        /\ state' = [state EXCEPT !.trade_info = turn[2],
                                                  !.trade_decision = Get(turn[2], "side")]
                   ELSE /\ Len(s1.messages) <= MaxMsgs
                        /\ state' = s1
                        /\ pc' = route_after_trade(s1)
          /\ hist' = [hist EXCEPT !.prev = "trade_agent", !.execs["trade"] = @ + 1,
                                   !.offered = possible_sides(state),
                                   !.handed = Len(state.messages)]
    /\ UNCHANGED configuration

\* what the engine, bound to trade and TradeDecision, can answer
TradeTurns ==
    Turns(Shapes("trade", "TradeDecision"), "TradeDecision",
          Candidates, MalformedCandidates)

TradeAgent == TradeAgentOver(TradeTurns)

\* arguments of the auxiliary `trade` tool (tools.py), as the dict it records
TradeToolArgs ==
    { TradeArgs(Str("NO_TRADE"), PyNone, Num(0), Num(50), Str("r"), PyNone),
      TradeArgs(Str("SELL"), Str("t2"), Num(5), Num(150), Str("r"), PyNone) }

RECURSIVE ApplyTradeTool(_, _, _, _)
ApplyTradeTool(s, n, statuses, decisions) ==
    IF n = 0 THEN s
    ELSE LET s0 == ApplyTradeTool(s, n - 1, statuses, decisions)
         IN  IF statuses[n] = "success"
             THEN [s0 EXCEPT !.trade_decision = decisions[n].side,
                             !.confidence = decisions[n].confidence,
                             !.trade_info = decisions[n]]
             ELSE s0

\* variant: a recorded trade spends the available funds
trade_tools_spends_funds(s, statuses, decisions) ==
    [add_messages(ApplyTradeTool(s, Len(statuses), statuses, decisions),
                  ToolResults(s, statuses, {}))
        EXCEPT !.available_funds = 0]

trade_tools(s, statuses, decisions) ==
    add_messages(ApplyTradeTool(s, Len(statuses), statuses, decisions),
                 ToolResults(s, statuses, {}))

TradeTools ==
    /\ pc = "trade_tools"
    /\ Room(Len(Last(state.messages).tool_calls))
    /\ \E statuses \in StatusSeqs(Len(Last(state.messages).tool_calls)),
          decision \in TradeToolArgs :
         state' = trade_tools(state, statuses,
                              [k \in 1..Len(statuses) |-> decision])
    /\ pc' = "trade_agent"
    /\ hist' = [hist EXCEPT !.prev = "trade_tools", !.tool_runs = @ + 1]
    /\ UNCHANGED configuration

\* required_fields: one validator per field
validator(field, x) ==
    CASE field = "side"       -> x.t = "str" /\ x.v \in {"BUY", "SELL", "NO_TRADE"}
      [] field = "reason"     -> x.t = "str" /\ x.v # ""
      [] field = "confidence" -> x.t = "num" /\ 0 <= x.v /\ x.v <= 100
      [] field = "market_id"  -> x.t = "str"
      [] field = "token_id"   -> x.t = "str"
      [] field = "size"       -> x.t = "num"

\* state.positions.get(token_val, 0)
PositionsTruthy(positions) == positions.t = "dict" /\ DOMAIN positions.held # {}
Held(positions, token_val) ==
    IF token_val.t = "str" /\ token_val.v \in DOMAIN positions.held
    THEN positions.held[token_val.v] ELSE 0

\* variant: the deterministic check without the SELL position rule
validation_errors_no_position_rule(s) ==
    LET trade_info == s.trade_info
        side_val == GetOr(trade_info, "side", Str(""))
        size_val == GetOr(trade_info, "size", Num(0))
    IN  IF ~TradeTruthy(trade_info)
        THEN { <<"No trade decision provided", "">> }
        ELSE { <<"Missing required field", f>> :
                    f \in {g \in TradeFields : Get(trade_info, g) = PyNone} }
             \cup
             { <<"Invalid value for", f>> :
                    f \in {g \in TradeFields : /\ Get(trade_info, g) # PyNone
                                               /\ ~validator(g, Get(trade_info, g))} }
             \cup
             (IF side_val = Str("NO_TRADE") /\ size_val # Num(0)
              THEN { <<"If side=NO_TRADE, size must be 0.", "size">> } ELSE {})
             \cup
             (IF side_val = Str("BUY") /\ size_val.t = "num"
                 /\ size_val.v > s.available_funds
              THEN { <<"Cannot BUY with size exceeding available funds", "size">> } ELSE {})

\* the deterministic check: the validation_errors list, as a set
validation_errors(s) ==
    LET trade_info == s.trade_info
        side_val == GetOr(trade_info, "side", Str(""))
        size_val == GetOr(trade_info, "size", Num(0))
        token_val == GetOr(trade_info, "token_id", Str(""))
    IN  IF ~TradeTruthy(trade_info)
        THEN { <<"No trade decision provided", "">> }
        ELSE { <<"Missing required field", f>> :
                    f \in {g \in TradeFields : Get(trade_info, g) = PyNone} }
             \cup
             { <<"Invalid value for", f>> :
                    f \in {g \in TradeFields : /\ Get(trade_info, g) # PyNone
                                               /\ ~validator(g, Get(trade_info, g))} }
             \cup
             (IF side_val = Str("NO_TRADE") /\ size_val # Num(0)
              THEN { <<"If side=NO_TRADE, size must be 0.", "size">> } ELSE {})
             \cup
             (IF side_val = Str("BUY") /\ size_val.t = "num"
                 /\ size_val.v > s.available_funds
              THEN { <<"Cannot BUY with size exceeding available funds", "size">> } ELSE {})
             \cup
             (IF side_val = Str("SELL")
                 /\ (~PositionsTruthy(s.positions) \/ Held(s.positions, token_val) <= 0)
              THEN { <<"Cannot SELL token if user holds no position in it.", "token_id">> }
              ELSE {})

is_valid(s) == validation_errors(s) = {}

\* `size_val > state.available_funds` raises TypeError when size is a string
reflect_on_trade_raises(s) ==
    \/ ~LastIsAI(s)
    \/ /\ TradeTruthy(s.trade_info)
       /\ GetOr(s.trade_info, "side", Str("")) = Str("BUY")
       /\ GetOr(s.trade_info, "size", Num(0)).t = "str"

\* variant: the judge's verdict alone decides
reflect_on_trade_node_judge_only(s, is_satisfactory) ==
    IF is_satisfactory
    THEN [add_messages(s, <<ToolMessage(FirstCallId(s), "Trade", "success",
                                Text("Trade decision validated successfully"))>>)
            EXCEPT !.decision = "end"]
    ELSE [add_messages(s, <<ToolMessage(FirstCallId(s), "Trade", "error",
                                Text("Trade decision needs improvement")
                                    \cup validation_errors(s))>>)
            EXCEPT !.decision = "trade_more"]

reflect_on_trade_node(s, is_satisfactory) ==
    LET final_is_satisfactory == is_satisfactory /\ is_valid(s)
    IN  IF final_is_satisfactory
        THEN [add_messages(s, <<ToolMessage(FirstCallId(s), "Trade", "success",
                                    Text("Trade decision validated successfully"))>>)
                EXCEPT !.trade_info = s.trade_info,
                       !.decision = "end"]
        ELSE [add_messages(s, <<ToolMessage(FirstCallId(s), "Trade", "error",
                                    Text("Trade decision needs improvement")
                                        \cup validation_errors(s))>>)
                EXCEPT !.decision = "trade_more"]

\* variant: a rejected trade candidate is always retried
route_after_reflect_on_trade_never_abort(s, max_loops) ==
    LET last_msg == IF s.messages # <<>> THEN Last(s.messages) ELSE PyNone
    IN  IF ~("type" \in DOMAIN last_msg /\ last_msg.type = "tool") THEN "trade_agent"
        ELSE IF last_msg.status = "success" THEN "__end__"
        ELSE "trade_agent"

\* variant: a rejected trade candidate always ends the run
route_after_reflect_on_trade_end_on_reject(s, max_loops) ==
    LET last_msg == IF s.messages # <<>> THEN Last(s.messages) ELSE PyNone
    IN  IF ~("type" \in DOMAIN last_msg /\ last_msg.type = "tool") THEN "trade_agent"
        ELSE "__end__"

\* variant: the Trade budget test is `>` instead of `>=`
route_after_reflect_on_trade_off_by_one(s, max_loops) ==
    LET last_msg == IF s.messages # <<>> THEN Last(s.messages) ELSE PyNone
    IN  IF ~("type" \in DOMAIN last_msg /\ last_msg.type = "tool") THEN "trade_agent"
        ELSE IF last_msg.status = "success" THEN "__end__"
        ELSE IF s.loop_step > max_loops THEN "__end__"
        ELSE "trade_agent"

route_after_reflect_on_trade(s, max_loops) ==
    LET last_msg == IF s.messages # <<>> THEN Last(s.messages) ELSE PyNone
    IN  IF ~("type" \in DOMAIN last_msg /\ last_msg.type = "tool") THEN "trade_agent"
        ELSE IF last_msg.status = "success" THEN "__end__"
        ELSE IF s.loop_step >= max_loops THEN "__end__"
        ELSE "trade_agent"

ReflectOnTrade ==
    /\ pc = "reflect_on_trade"
    /\ \/ \* the judge is called after the ValueError guard, before the checks
          /\ LastIsAI(state)
          /\ EngineRaises("reflect_on_trade")
       \/ \E is_satisfactory \in BOOLEAN :
            IF reflect_on_trade_raises(state)
            THEN /\ pc' = "__error__"
                 /\ hist' = [hist EXCEPT !.prev = "reflect_on_trade",
                                          !.verdict = is_satisfactory]
                 /\ UNCHANGED state
            ELSE LET s1 == reflect_on_trade_node(state, is_satisfactory)
                 IN  /\ Room(1)
                     /\ state' = s1
                     /\ pc' = route_after_reflect_on_trade(s1, configuration.max_loops)
                     /\ hist' = Validated("trade", "reflect_on_trade", is_satisfactory, s1)
    /\ UNCHANGED configuration

Next ==
    \/ FetchMarketData
    \/ ResearchAgent \/ ResearchTools \/ ReflectOnResearch
    \/ AnalysisAgent \/ AnalysisTools \/ ReflectOnAnalysis
    \/ TradeAgent \/ TradeTools \/ ReflectOnTrade

Spec == Init /\ [][Next]_vars

(***************************************************************************)
(* The Trade validator over all candidates: the workflow has just entered  *)
(* the Trade phase after one accepted research and one accepted analysis   *)
(* turn, and the engine submits any candidate as a single terminal call.   *)
(***************************************************************************)
AllCandidates ==
    { TradeArgs(side, token_id, size, confidence, reason, market_id) :
        side \in {Str("BUY"), Str("SELL"), Str("NO_TRADE"), Str("HOLD"), Absent},
        token_id \in {Str("t1"), Str("t2"), Absent, Num(7)},
        size \in {Num(-5), Num(0), Num(5), Num(20), Absent, PyNone, Str("5")},
        confidence \in {Num(50), Num(150), Absent, Str("0.9")},
        reason \in {Str("r"), Str(""), Absent},
        market_id \in {Str("123"), Absent, Num(123)} }

AllFundsValues == {0, 10}

TradeEntry(positions, available_funds, max_loops) ==
    LET s0 == InitialState("123", positions, available_funds)
        s1 == route_after_fetch(fetch_market_data(s0, "full")).state
        s2 == research_agent_node(s1,
                  Response(s1, <<"ExternalResearchInfo">>, "ExternalResearchInfo",
                           Dict({"research_summary", "confidence", "sources"})))
        s3 == route_after_reflect_on_research(
                  reflect_on_research_node(s2, TRUE), max_loops).state
        s4 == analysis_agent_node(s3,
                  Response(s3, <<"AnalysisInfo">>, "AnalysisInfo",
                           Dict({"analysis_summary", "confidence"})))
    IN  route_after_reflect_on_analysis(
            reflect_on_analysis_node(s4, TRUE), max_loops).state

\* the history of the run that TradeEntry follows
TradeEntryHist ==
    [ prev |-> "reflect_on_analysis",
      provider |-> "full",
      fetches |-> 1,
      execs |-> [p \in Phases |-> IF p = "trade" THEN 0 ELSE 1],
      tool_runs |-> 0,
      validations |-> [p \in Phases |-> IF p = "trade" THEN 0 ELSE 1],
      accepted |-> {"research", "analysis"},
      verdict |-> TRUE,
      offered |-> {},
      handed |-> 3,
      raised |-> "none" ]

InitTrade ==
    /\ pc = "trade_agent"
    /\ configuration = [max_loops |-> 1]
    /\ \E p \in AllPositionsValues, f \in AllFundsValues :
           state = TradeEntry(p, f, 1)
    /\ hist = TradeEntryHist

AllCandidateTurns == { <<(<<"TradeDecision">>), args>> : args \in AllCandidates }

TradeAgentAll == TradeAgentOver(AllCandidateTurns)

NextTrade == TradeAgentAll \/ ReflectOnTrade

SpecTrade == InitTrade /\ [][NextTrade]_vars

(***************************************************************************)
(* Scenario C: the Trade phase under the default max_loops, entered with   *)
(* no positions; the engine answers as in the workflow specification.      *)
(***************************************************************************)
NoPositionsValues == { PyNone, Positions([k \in {} |-> 0]) }

InitC ==
    /\ pc = "trade_agent"
    /\ configuration = [max_loops |-> DefaultMaxLoops]
    /\ \E p \in NoPositionsValues, f \in AllFundsValues :
           state = TradeEntry(p, f, DefaultMaxLoops)
    /\ hist = TradeEntryHist

NextC == TradeAgent \/ TradeTools \/ ReflectOnTrade

SpecC == InitC /\ [][NextC]_vars

(***************************************************************************)
(* Scenario D: the default max_loops, every analysis turn submits a        *)
(* terminal AnalysisInfo candidate and the judge rejects every one.        *)
(***************************************************************************)
ScenarioLimit == MaxMsgs + 2 * (DefaultMaxLoops + 1)

InitD ==
    /\ pc = "fetch_market_data"
    /\ state = InitialState("123", PyNone, 10)
    /\ configuration = [max_loops |-> DefaultMaxLoops]
    /\ hist = InitialHist

ScenarioDTurns == { <<(<<"AnalysisInfo">>), args>> : args \in AnalysisArgs \cup EmptyArgs }

ScenarioDAnalysisAgent == AnalysisAgentOver(ScenarioDTurns, ScenarioLimit)

ScenarioDReflectOnAnalysis == ReflectOnAnalysisOver({FALSE}, ScenarioLimit)

NextD ==
    \/ FetchMarketData
    \/ ResearchAgent \/ ResearchTools \/ ReflectOnResearch
    \/ ScenarioDAnalysisAgent \/ ScenarioDReflectOnAnalysis

SpecD == InitD /\ [][NextD]_vars

(***************************************************************************)
(* Re-fetch: fetch_market_data invoked again on the state its previous     *)
(* invocation left, the provider answering each invocation on its own.     *)
(***************************************************************************)
MaxFetches == 2

InvokeFetch ==
    /\ pc = "fetch_market_data"
    /\ hist.fetches < MaxFetches
    /\ \E out \in ProviderOutcomes :
         /\ state' = fetch_market_data(state, out)
         /\ hist' = [hist EXCEPT !.prev = "fetch_market_data",
                                  !.provider = out,
                                  !.fetches = @ + 1]
    /\ UNCHANGED <<pc, configuration>>

SpecFetch == Init /\ [][InvokeFetch]_vars

(***************************************************************************)
(* Properties                                                              *)
(***************************************************************************)
Executors == {"research_agent", "analysis_agent", "trade_agent"}
Validators == {"reflect_on_research", "reflect_on_analysis", "reflect_on_trade"}
TerminalTools == {"ExternalResearchInfo", "AnalysisInfo", "TradeDecision"}

\* the last message is a validator's verdict message with this status
VerdictIs(status) ==
    /\ hist.prev \in Validators
    /\ state.messages # <<>>
    /\ Last(state.messages).type = "tool"
    /\ Last(state.messages).status = status

\* the stated trade rules, read off a candidate
PositionHeld(positions, token_id) ==
    IF positions.t = "dict" /\ token_id.t = "str" /\ token_id.v \in DOMAIN positions.held
    THEN positions.held[token_id.v] ELSE 0

LegalTrade(ti, positions, available_funds) ==
    /\ ti.side = Str("SELL") => PositionHeld(positions, ti.token_id) > 0
    /\ ti.side = Str("BUY") => ti.size.t = "num" /\ ti.size.v <= available_funds
    /\ ti.side = Str("NO_TRADE") => ti.size = Num(0)

WellFormed(ti) ==
    /\ ti.side \in {Str("BUY"), Str("SELL"), Str("NO_TRADE")}
    /\ ti.market_id.t = "str"
    /\ ti.token_id.t = "str"
    /\ ti.size.t = "num"
    /\ ti.reason.t = "str" /\ ti.reason.v # ""
    /\ ti.confidence.t = "num" /\ 0 <= ti.confidence.v /\ ti.confidence.v <= 100

DeterministicOK(ti, positions, available_funds) ==
    ti.t = "dict" /\ WellFormed(ti) /\ LegalTrade(ti, positions, available_funds)

\* C1: in every phase the number of stage-executor invocations made before
\* the phase advances or the workflow aborts is at most max_loops + 1,
\* whatever the reasoning engine answers.
C1_LoopBound ==
    \A p \in Phases : hist.execs[p] <= configuration.max_loops + 1

\* C2: whenever the workflow has ended and trade_info is set, trade_info
\* obeys SELL => held position > 0, BUY => size <= available_funds,
\* NO_TRADE => size = 0.
C2_EmittedTradeLegal ==
    (pc = "__end__" /\ state.trade_info.t = "dict")
        => LegalTrade(state.trade_info, state.positions, state.available_funds)

\* C3: a candidate that breaks a trade rule or lacks a well-typed required
\* field makes reflect_on_trade_node return decision 'trade_more' with an
\* error-status message, whatever the judge's verdict.
C3_RejectsEveryViolation ==
    (hist.prev = "reflect_on_trade"
        /\ ~DeterministicOK(state.trade_info, state.positions, state.available_funds))
        => /\ pc # "__error__"
           /\ state.decision = "trade_more"
           /\ VerdictIs("error")

\* C4: the Trade validator accepts (success message, decision 'end') exactly
\* when the judge's verdict is true and the deterministic check passes.
C4_AcceptIffJudgeAndCheck ==
    hist.prev = "reflect_on_trade"
        => ( (VerdictIs("success") /\ state.decision = "end")
             <=> (hist.verdict /\ DeterministicOK(state.trade_info, state.positions,
                                                  state.available_funds)) )

C4_Witness ==
    /\ hist.prev = "reflect_on_trade"
    /\ hist.verdict
    /\ ~DeterministicOK(state.trade_info, state.positions, state.available_funds)
    /\ VerdictIs("error")
    /\ state.decision = "trade_more"

C6_SingleTerminalCall ==
    (hist.prev \in Executors
        /\ Last(state.messages).type = "ai"
        /\ \E k \in 1..Len(Last(state.messages).tool_calls) :
               Last(state.messages).tool_calls[k].name \in TerminalTools)
        => Len(Last(state.messages).tool_calls) = 1

\* C7: the phases are entered in the order Research, Analysis, Trade: an
\* executor runs only after the previous phase's validator returned success,
\* and no executor of an earlier phase runs once a later phase has started.
C7_PhaseOrdering ==
    /\ [](/\ hist.execs["analysis"] > 0 => "research" \in hist.accepted
          /\ hist.execs["trade"] > 0 => {"research", "analysis"} \subseteq hist.accepted)
    /\ [][/\ hist.execs["analysis"] > 0
                => hist'.execs["research"] = hist.execs["research"]
          /\ hist.execs["trade"] > 0
                => /\ hist'.execs["research"] = hist.execs["research"]
                   /\ hist'.execs["analysis"] = hist.execs["analysis"]]_vars

C7_Witness ==
    hist.execs["trade"] > 0 /\ hist.execs["analysis"] > 1 /\ hist.execs["research"] > 1

\* C8: when the fetch fails (no id, non-integer id, provider exception) or
\* the snapshot is empty, the workflow ends right after the single fetch and
\* no executor, tool node or validator ever runs.
FetchFailed ==
    \/ state.market_id = "None"
    \/ ~IsIntegerId(state.market_id)
    \/ hist.provider \in {"empty", "bad_clob", "raise_with_id", "raise_plain"}

C8_PrePhaseAbort ==
    /\ hist.fetches <= 1
    /\ (hist.fetches = 1 /\ FetchFailed)
        => /\ pc = "__end__"
           /\ \A p \in Phases : hist.execs[p] = 0 /\ hist.validations[p] = 0
           /\ hist.tool_runs = 0

C8_Witness ==
    pc = "__end__" /\ hist.fetches = 1 /\ hist.provider = "empty"
    /\ IsIntegerId(state.market_id)

\* C9: when the snapshot provider raises for a market_id, the run ends with
\* research_report, analysis_info, trade_info and confidence absent and the
\* log holds a message that mentions that market_id.
C9_ScenarioA ==
    (hist.fetches = 1 /\ IsIntegerId(state.market_id)
        /\ hist.provider \in {"raise_with_id", "raise_plain"})
        => /\ pc = "__end__"
           /\ state.research_report = PyNone
           /\ state.analysis_info = PyNone
           /\ state.trade_info = PyNone
           /\ state.confidence = PyNone
           /\ \E i \in 1..Len(state.messages) :
                 /\ state.messages[i].type = "human"
                 /\ state.market_id \in state.messages[i].mentions

\* C10: with max_loops = 6, when every analysis turn submits a terminal
\* candidate and every one is rejected, the workflow aborts after exactly 6
\* analysis_agent invocations and trade_agent is never invoked.
C10_ScenarioD ==
    /\ hist.execs["trade"] = 0
    /\ hist.execs["analysis"] <= 6
    /\ (pc = "__end__" /\ hist.execs["analysis"] > 0) => hist.execs["analysis"] = 6
    /\ (hist.prev = "reflect_on_analysis" /\ hist.execs["analysis"] = 6) => pc = "__end__"
    /\ (hist.prev = "reflect_on_analysis" /\ hist.execs["analysis"] < 6)
           => pc = "analysis_agent"

C10_Witness ==
    pc = "__end__" /\ hist.execs["analysis"] = 6 /\ hist.validations["analysis"] = 6

\* the artifact field a phase's executor writes its candidate to
Artifact(p) ==
    IF p = "research" THEN state.external_research_info
    ELSE IF p = "analysis" THEN state.analysis_info
    ELSE state.trade_info

ValidatorOf(p) ==
    IF p = "research" THEN "reflect_on_research"
    ELSE IF p = "analysis" THEN "reflect_on_analysis"
    ELSE "reflect_on_trade"

ExecutorOf(p) ==
    IF p = "research" THEN "research_agent"
    ELSE IF p = "analysis" THEN "analysis_agent"
    ELSE "trade_agent"

\* C11: when the workflow has ended on a validator's rejection (loop budget
\* exhausted, no candidate of that phase accepted), that phase's artifact
\* field is unset: a rejected candidate is not left in it.
C11_RejectedArtifactAbsent ==
    \A p \in Phases :
        (pc = "__end__" /\ VerdictIs("error") /\ hist.prev = ValidatorOf(p)
            /\ p \notin hist.accepted)
            => Artifact(p) = PyNone

\* the candidate the executor submitted k messages before the end of the log
SubmittedAt(k) ==
    LET n == Len(state.messages) - k
    IN  IF n >= 1 /\ state.messages[n].type = "ai" /\ state.messages[n].tool_calls # <<>>
        THEN state.messages[n].tool_calls[1].args
        ELSE PyNone

NoTradeCandidate(ti) ==
    ti.t = "dict" /\ WellFormed(ti) /\ ti.side = Str("NO_TRADE") /\ ti.size = Num(0)

\* C12: Scenario C.  In the Trade phase without positions, a first candidate
\* with side SELL is rejected by the deterministic check whatever the judge
\* says, and the workflow goes back to trade_agent with loop_step = 1; a
\* second candidate NO_TRADE of size 0 with every required field, approved
\* by the judge, is accepted and the workflow ends with trade_decision
\* "NO_TRADE".
C12_ScenarioC ==
    /\ (hist.prev = "reflect_on_trade"
        /\ hist.execs["trade"] = 1 /\ hist.validations["trade"] = 1
        /\ ~PositionsTruthy(state.positions)
        /\ state.trade_info.t = "dict" /\ state.trade_info.side = Str("SELL"))
        => /\ VerdictIs("error")
           /\ <<"Cannot SELL token if user holds no position in it.", "token_id">>
                  \in Last(state.messages).content
           /\ pc = "trade_agent"
           /\ state.loop_step = 1
    /\ (hist.prev = "reflect_on_trade"
        /\ hist.execs["trade"] = 2 /\ hist.validations["trade"] = 2
        /\ ~PositionsTruthy(state.positions)
        /\ SubmittedAt(3).t = "dict" /\ SubmittedAt(3).side = Str("SELL")
        /\ NoTradeCandidate(state.trade_info)
        /\ hist.verdict)
        => /\ VerdictIs("success")
           /\ pc = "__end__"
           /\ state.trade_decision = Str("NO_TRADE")

C12_Witness ==
    /\ pc = "__end__"
    /\ hist.prev = "reflect_on_trade"
    /\ hist.execs["trade"] = 2 /\ hist.validations["trade"] = 2
    /\ state.positions = Positions([k \in {} |-> 0])
    /\ SubmittedAt(3).t = "dict" /\ SubmittedAt(3).side = Str("SELL")
    /\ state.messages[Len(state.messages) - 2].type = "tool"
    /\ state.messages[Len(state.messages) - 2].status = "error"
    /\ NoTradeCandidate(state.trade_info)
    /\ VerdictIs("success")
    /\ state.trade_decision = Str("NO_TRADE")
    /\ state.loop_step = 2

\* the research phase so far: one turn with a single search_exa call, its
\* tool result, then a terminal turn that the validator has just judged
OneSearchThenSubmit ==
    /\ hist.prev = "reflect_on_research"
    /\ hist.execs["research"] = 2
    /\ hist.tool_runs = 1
    /\ hist.validations["research"] = 1
    /\ Len(state.messages) >= 5
    /\ state.messages[2].type = "ai"
    /\ Len(state.messages[2].tool_calls) = 1
    /\ state.messages[2].tool_calls[1].name = "search_exa"
    /\ state.messages[3].type = "tool"

\* C13: Scenario B.  After one search tool call and a terminal, non-empty
\* ExternalResearchInfo candidate that the judge finds satisfactory, the
\* validator accepts on that first attempt, the candidate is the persisted
\* research artifact, and the workflow is at analysis_agent with loop_step 0.
C13_ScenarioB ==
    (OneSearchThenSubmit /\ Truthy(SubmittedAt(1)) /\ hist.verdict)
        => /\ VerdictIs("success")
           /\ state.decision = "proceed_to_analysis"
           /\ state.external_research_info = SubmittedAt(1)
           /\ "research" \in hist.accepted
           /\ pc = "analysis_agent"
           /\ state.loop_step = 0

C13_Witness ==
    /\ OneSearchThenSubmit
    /\ state.messages[3].status = "success"
    /\ hist.verdict
    /\ VerdictIs("success")
    /\ state.external_research_info = Dict({"research_summary", "confidence", "sources"})
    /\ pc = "analysis_agent"
    /\ state.loop_step = 0

SomePositionPositive(positions) ==
    positions.t = "dict" /\ \E k \in DOMAIN positions.held : positions.held[k] > 0

\* C14: on every trade_agent_node invocation SELL is among the sides offered
\* to the engine exactly when some held position is strictly positive;
\* with positions None, empty or all <= 0 the offered set is {BUY, NO_TRADE}.
C14_SellOfferedIffPositive ==
    hist.execs["trade"] > 0
        => /\ "SELL" \in hist.offered <=> SomePositionPositive(state.positions)
           /\ ~SomePositionPositive(state.positions) => hist.offered = {"BUY", "NO_TRADE"}

\* the run has ended on the Trade validator's acceptance
NormalCompletion ==
    pc = "__end__" /\ hist.prev = "reflect_on_trade" /\ VerdictIs("success")

\* C15: on normal completion research_report, analysis_info, trade_info and
\* confidence are all set in the final state.
C15_OutputPopulated ==
    NormalCompletion
        => /\ state.research_report # PyNone
           /\ state.analysis_info # PyNone
           /\ state.trade_info # PyNone
           /\ state.confidence # PyNone

\* C16: every run terminates because max_loops bounds the iterations: an
\* executor is scheduled only while loop budget remains, so the remaining
\* budget max_loops - loop_step decreases with every iteration and no run,
\* whatever the engine and the tools answer, iterates past max_loops.
C16_IterationsBounded ==
    pc \in Executors => state.loop_step < configuration.max_loops

\* C17: right after a validator's rejection the workflow has ended exactly
\* when loop_step >= max_loops, and otherwise is back at the same phase's
\* executor; it is never at a later phase.  The same for all three phases.
C17_RejectionPolicy ==
    \A p \in Phases :
        (VerdictIs("error") /\ hist.prev = ValidatorOf(p))
            => /\ pc = "__end__" <=> state.loop_step >= configuration.max_loops
               /\ pc # "__end__" => pc = ExecutorOf(p)
               /\ p \notin hist.accepted

C17_Witness ==
    /\ VerdictIs("error")
    /\ hist.prev = "reflect_on_trade"
    /\ configuration.max_loops = 2
    /\ state.loop_step = 1
    /\ pc = "trade_agent"

\* the phase whose nodes are running
CurrentPhase ==
    IF hist.execs["trade"] > 0 \/ "analysis" \in hist.accepted THEN "trade"
    ELSE IF hist.execs["analysis"] > 0 \/ "research" \in hist.accepted THEN "analysis"
    ELSE "research"

\* C18: every executor invocation that returns adds exactly 1 to loop_step;
\* any other step leaves loop_step alone or, at a phase transition, resets
\* it to 0; so within a phase loop_step is the number of executor
\* invocations made so far in that phase.
C18_LoopStepCounts ==
    /\ []((hist.fetches > 0 /\ pc # "__error__")
            => state.loop_step = hist.execs[CurrentPhase])
    /\ [][/\ (hist'.prev \in Executors /\ pc' # "__error__")
                => state'.loop_step = state.loop_step + 1
          /\ hist'.prev \notin Executors
                => \/ state'.loop_step = state.loop_step
                   \/ /\ state'.loop_step = 0
                      /\ pc' \in Executors /\ pc' # pc]_vars

ToolsOf(p) ==
    IF p = "research" THEN "research_tools"
    ELSE IF p = "analysis" THEN "analysis_tools"
    ELSE "trade_tools"

TerminalOf(p) ==
    IF p = "research" THEN "ExternalResearchInfo"
    ELSE IF p = "analysis" THEN "AnalysisInfo"
    ELSE "TradeDecision"

\* the engine's response appended by the executor turn that has just run
TurnResponse ==
    IF Last(state.messages).type = "human"
    THEN state.messages[Len(state.messages) - 1]
    ELSE Last(state.messages)

NamesTool(msg, name) ==
    \E k \in 1..Len(msg.tool_calls) : msg.tool_calls[k].name = name

\* C19: after an executor turn the next node is the phase's validator iff
\* the turn names the phase's terminal tool, the phase's tool node iff it
\* names only other capabilities, and the same executor iff it names no
\* tool, in which case a human instruction demanding a tool call follows
\* the response in the log; exactly one of the three is chosen.
C19_ExecuteTransition ==
    \A p \in Phases :
        (hist.prev = ExecutorOf(p) /\ pc # "__error__")
            => /\ TurnResponse.type = "ai"
               /\ pc = ValidatorOf(p) <=> NamesTool(TurnResponse, TerminalOf(p))
               /\ pc = ToolsOf(p) <=> /\ TurnResponse.tool_calls # <<>>
                                      /\ ~NamesTool(TurnResponse, TerminalOf(p))
               /\ pc = ExecutorOf(p) <=> TurnResponse.tool_calls = <<>>
               /\ TurnResponse.tool_calls = <<>> <=> Last(state.messages).type = "human"
               /\ pc \in {ValidatorOf(p), ToolsOf(p), ExecutorOf(p)}

C19_Witness ==
    /\ hist.prev = "trade_agent"
    /\ pc = "trade_agent"
    /\ Last(state.messages).type = "human"
    /\ TurnResponse.type = "ai" /\ TurnResponse.tool_calls = <<>>
    /\ hist.tool_runs >= 1
    /\ hist.validations["analysis"] >= 1

\* C20: the workflow is at END only after a failed fetch, after a
\* validator's rejection with loop_step >= max_loops, or after the Trade
\* validator's acceptance; never after an accepted Research or Analysis
\* candidate, after a tool node, after an executor, or after a rejection
\* with loop_step < max_loops.
C20_StopsOnlyThreeWays ==
    pc = "__end__"
        => \/ hist.prev = "fetch_market_data" /\ ~Truthy(state.market_data)
           \/ VerdictIs("error") /\ state.loop_step >= configuration.max_loops
           \/ VerdictIs("success") /\ hist.prev = "reflect_on_trade"

C20_Witness ==
    /\ pc = "__end__"
    /\ VerdictIs("error")
    /\ hist.prev = "reflect_on_research"
    /\ configuration.max_loops = 2
    /\ state.loop_step >= 2
    /\ hist.tool_runs >= 1

\* a required field of a candidate is missing (absent or None) or ill-typed
FieldMissing(ti, f) == ti[f] \in {Absent, PyNone}
FieldIllTyped(ti, f) ==
    /\ ~FieldMissing(ti, f)
    /\ CASE f = "side"       -> ti[f] \notin {Str("BUY"), Str("SELL"), Str("NO_TRADE")}
         [] f = "reason"     -> ~(ti[f].t = "str" /\ ti[f].v # "")
         [] f = "confidence" -> ~(ti[f].t = "num" /\ 0 <= ti[f].v /\ ti[f].v <= 100)
         [] f = "market_id"  -> ti[f].t # "str"
         [] f = "token_id"   -> ti[f].t # "str"
         [] f = "size"       -> ti[f].t # "num"

\* the critique names the constraint `line` (about `subject`)
Names(critique, line, subject) == <<line, subject>> \in critique

\* every constraint the candidate violates is named in the critique
NamesEachViolation(critique, ti, positions, available_funds) ==
    IF \A f \in TradeFields : ti[f] = Absent
    THEN Names(critique, "No trade decision provided", "")
    ELSE /\ \A f \in TradeFields :
              /\ FieldMissing(ti, f) => Names(critique, "Missing required field", f)
              /\ FieldIllTyped(ti, f) => Names(critique, "Invalid value for", f)
         /\ (ti.side = Str("SELL") /\ PositionHeld(positions, ti.token_id) <= 0)
                => Names(critique, "Cannot SELL token if user holds no position in it.", "token_id")
         /\ (ti.side = Str("BUY") /\ ti.size.t = "num" /\ ti.size.v > available_funds)
                => Names(critique, "Cannot BUY with size exceeding available funds", "size")
         /\ (ti.side = Str("NO_TRADE") /\ ti.size \notin {Num(0), Absent})
                => Names(critique, "If side=NO_TRADE, size must be 0.", "size")

\* C21: a candidate that fails the deterministic trade checks is rejected,
\* never a fatal error: the validator appends an error-status critique that
\* names each violated constraint, and the run goes back to trade_agent, or
\* ends when the loop budget is used up.
C21_CheckFailureIsRejection ==
    (hist.prev = "reflect_on_trade" /\ state.trade_info.t = "dict"
        /\ ~DeterministicOK(state.trade_info, state.positions, state.available_funds))
        => /\ pc # "__error__"
           /\ VerdictIs("error")
           /\ pc = IF state.loop_step >= configuration.max_loops
                   THEN "__end__" ELSE "trade_agent"
           /\ NamesEachViolation(Last(state.messages).content, state.trade_info,
                                 state.positions, state.available_funds)

\* a validator has just rejected and the workflow is back at its executor
Retry ==
    \E p \in Phases : hist.prev = ValidatorOf(p) /\ pc = ExecutorOf(p)

\* C22: after a validator rejection that leads to a retry, the critique is
\* the last message of the log (an error-status tool result with a
\* non-empty text), and the conversation handed to the engine by the next
\* invocation of that executor contains it.
C22_RetryFeedback ==
    /\ [](Retry => /\ Last(state.messages).type = "tool"
                   /\ Last(state.messages).status = "error"
                   /\ Last(state.messages).content # {})
    /\ [][(Retry /\ hist'.prev = pc)
            => /\ hist'.handed = Len(state.messages)
               /\ Len(state'.messages) >= hist'.handed
               /\ state'.messages[hist'.handed] = Last(state.messages)]_vars

C22_Witness ==
    /\ hist.prev = "analysis_agent"
    /\ hist.validations["analysis"] >= 1
    /\ "analysis" \notin hist.accepted
    /\ hist.handed >= 1
    /\ state.messages[hist.handed].type = "tool"
    /\ state.messages[hist.handed].status = "error"
    /\ state.messages[hist.handed].content = Text("Analysis needs improvement")

\* index of the last engine response in the log, 0 when there is none
LastResponseIndex ==
    LET ais == {i \in 1..Len(state.messages) : state.messages[i].type = "ai"}
    IN  IF ais = {} THEN 0 ELSE CHOOSE i \in ais : \A j \in ais : j <= i

\* C23: a tool node never ends or fails the run, whatever its tools do: each
\* requested call, a call whose tool raised included, has its tool-result
\* message in the log (error status for a raised exception) and the
\* workflow is back at the same phase's executor.
C23_ToolFailureContained ==
    \A p \in Phases :
        hist.prev = ToolsOf(p)
            => LET k == LastResponseIndex
                   calls == state.messages[k].tool_calls
               IN  /\ pc = ExecutorOf(p)
                   /\ Len(state.messages) = k + Len(calls)
                   /\ \A i \in 1..Len(calls) :
                        /\ state.messages[k + i].type = "tool"
                        /\ state.messages[k + i].tool_call_id = calls[i].id
                        /\ state.messages[k + i].status \in {"success", "error"}

C23_Witness ==
    /\ hist.prev = "analysis_tools"
    /\ pc = "analysis_agent"
    /\ Last(state.messages).type = "tool"
    /\ Last(state.messages).name = "analysis_get_market_details"
    /\ Last(state.messages).status = "error"
    /\ state.market_details = PyNone

\* C24: a failure of the reasoning engine inside an executor or a validator,
\* and a validator's own ValueError, are fatal: the step ends in the error
\* state with the workflow state as it was (no critique appended, no counter
\* advanced), and no step is ever taken from the error state.
C24_EngineFailureFatal ==
    [][/\ pc # "__error__"
       /\ (hist'.raised # "none" /\ hist.raised = "none")
            => /\ pc \in Executors \cup Validators
               /\ hist'.raised = pc
               /\ pc' = "__error__"
               /\ state' = state
       /\ (pc \in Validators /\ ~LastIsAI(state))
            => /\ pc' = "__error__"
               /\ state' = state]_vars

C24_Witness ==
    /\ pc = "__error__"
    /\ hist.raised = "reflect_on_analysis"
    /\ hist.validations["analysis"] = 1
    /\ Last(state.messages).type = "ai"
    /\ state.loop_step = 2

\* C25: the Trade phase has no tool step: the workflow is never at the
\* trade_tools node, no step was made by it, and no engine response in the
\* log requests the auxiliary `trade` tool.
C25_NoTradeToolStep ==
    /\ pc # "trade_tools"
    /\ hist.prev # "trade_tools"
    /\ \A i \in 1..Len(state.messages) :
         state.messages[i].type = "ai"
            => \A k \in 1..Len(state.messages[i].tool_calls) :
                 state.messages[i].tool_calls[k].name # "trade"

TradeArtifacts(s) == <<s.trade_info, s.trade_decision, s.confidence>>

ResearchNodes == {"fetch_market_data", "research_agent", "research_tools", "reflect_on_research"}
AnalysisNodes == {"analysis_agent", "analysis_tools", "reflect_on_analysis"}

\* C26: each artifact changes only in a step of its own phase's executor, a
\* tool node changes none; analysis_info is unset at every Research node,
\* and trade_info, trade_decision and confidence are unset at every Research
\* and Analysis node.
C26_ArtifactOwnership ==
    /\ [](pc \in ResearchNodes => state.analysis_info = PyNone)
    /\ [](pc \in ResearchNodes \cup AnalysisNodes
            => TradeArtifacts(state) = <<PyNone, PyNone, PyNone>>)
    /\ [][/\ state'.external_research_info # state.external_research_info
              => pc = "research_agent"
          /\ state'.analysis_info # state.analysis_info
              => pc = "analysis_agent"
          /\ TradeArtifacts(state') # TradeArtifacts(state)
              => pc = "trade_agent"]_vars

\* C27: no step changes market_id, so in every reachable state it is the
\* value the run was started with.
C27_MarketIdImmutable ==
    [][state'.market_id = state.market_id]_vars

C27_Witness ==
    /\ pc = "__end__"
    /\ state.market_id = "123"
    /\ hist.fetches = 1
    /\ hist.tool_runs > 0
    /\ "trade" \in hist.accepted
    /\ "id" \in state.market_data.keys

IsPrefix(a, b) == Len(a) <= Len(b) /\ SubSeq(b, 1, Len(a)) = a

\* C28: every step leaves state.messages as it was or appends to it: the
\* log before the step is a prefix of the log after it (and so, step by
\* step, of the log in every later state).
C28_LogAppendOnly ==
    [][IsPrefix(state.messages, state'.messages)]_vars

C28_Witness ==
    /\ Len(state.messages) >= 6
    /\ state.messages[1].type = "human"
    /\ state.messages[2].type = "ai"
    /\ \E i \in 3..(Len(state.messages) - 1) :
         /\ state.messages[i].type = "tool"
         /\ state.messages[i].status = "error"
    /\ hist.prev \in Validators
    /\ hist.tool_runs > 0

ToolNodes == {"research_tools", "analysis_tools", "trade_tools"}
Nodes == {"fetch_market_data"} \cup Executors \cup ToolNodes \cup Validators

\* the tool-result messages that follow the last engine response
ResultsAfterLastResponse ==
    SubSeq(state.messages, LastResponseIndex + 1, Len(state.messages))

\* C29: one node at a time: the workflow is at exactly one node (or has
\* stopped), and every step is made by the node it was at and leads to one
\* successor; the results of a tool node follow the order of the requests:
\* the i-th message appended answers the i-th call of the engine's response,
\* by id and by tool name.
C29_OneNodeResultsInOrder ==
    /\ [](pc \in Nodes \cup {"__end__", "__error__"})
    /\ [][/\ pc \in Nodes
          /\ hist'.prev = pc \/ hist'.raised = pc]_vars
    /\ [](hist.prev \in ToolNodes
            => LET calls == state.messages[LastResponseIndex].tool_calls
               IN  /\ [i \in 1..Len(ResultsAfterLastResponse) |->
                          ResultsAfterLastResponse[i].tool_call_id]
                      = [i \in 1..Len(calls) |-> calls[i].id]
                   /\ [i \in 1..Len(ResultsAfterLastResponse) |->
                          ResultsAfterLastResponse[i].name]
                      = [i \in 1..Len(calls) |-> calls[i].name])

C29_Witness ==
    /\ hist.prev = "analysis_tools"
    /\ Len(ResultsAfterLastResponse) = 2
    /\ ResultsAfterLastResponse[1].name = "analysis_get_market_details"
    /\ ResultsAfterLastResponse[1].status = "error"
    /\ ResultsAfterLastResponse[2].name = "analysis_get_multi_level_orderbook"
    /\ ResultsAfterLastResponse[2].status = "success"

\* the provider returned a snapshot (it was called and did not raise)
Returned(out) == out \in {"full", "partial", "empty"}

C31_ConfidenceInUnitInterval ==
    state.confidence # PyNone
        => /\ state.confidence.t = "num"
           /\ 0 <= state.confidence.v /\ state.confidence.v <= 100

\* C32: whenever a validator is about to run, the last message of the log
\* is an AI message whose first tool call is that phase's terminal tool: the
\* validators' ValueError guard does not fire and tool_calls[0] exists.
C32_ValidatorPrecondition ==
    \A p \in Phases :
        pc = ValidatorOf(p)
            => /\ LastIsAI(state)
               /\ Last(state.messages).tool_calls # <<>>
               /\ Last(state.messages).tool_calls[1].name = TerminalOf(p)

C32_Witness ==
    /\ pc = "reflect_on_research"
    /\ hist.tool_runs > 0
    /\ hist.validations["research"] = 1
    /\ Len(Last(state.messages).tool_calls) = 2
    /\ Last(state.messages).tool_calls[2].name = "ExternalResearchInfo"

\* C33: whenever a validator is about to run, the artifact it reads from the
\* state is the argument dict of the terminal call in the last message: the
\* candidate just submitted, not an earlier one and not None.
C33_JudgesSubmittedCandidate ==
    \A p \in Phases :
        pc = ValidatorOf(p)
            => /\ Artifact(p) # PyNone
               /\ Artifact(p) = Last(state.messages).tool_calls[1].args

C33_Witness ==
    /\ pc = "reflect_on_analysis"
    /\ hist.validations["analysis"] >= 1
    /\ state.analysis_info = Last(state.messages).tool_calls[1].args
    /\ \E i \in 1..(Len(state.messages) - 1) :
         /\ state.messages[i].type = "ai"
         /\ state.messages[i].tool_calls # <<>>
         /\ state.messages[i].tool_calls[1].name = "AnalysisInfo"
         /\ state.messages[i].tool_calls[1].args # state.analysis_info

Answers(id) ==
    {j \in 1..Len(state.messages) :
        state.messages[j].type = "tool" /\ state.messages[j].tool_call_id = id}

\* C35: when an executor is about to run, every tool call of the last engine
\* response has exactly one tool-result message answering its id; in
\* particular the validator's verdict message answers the terminal call it
\* judged and no call is left unanswered.
C35_EveryCallAnswered ==
    (pc \in Executors /\ LastResponseIndex > 0)
        => LET calls == state.messages[LastResponseIndex].tool_calls
           IN  \A i \in 1..Len(calls) : Cardinality(Answers(calls[i].id)) = 1

\* the side of the candidate the Trade validator has just judged
JudgedSide == Get(state.trade_info, "side")

\* C36: the sides offered by trade_agent_node and the deterministic check
\* agree: a SELL candidate submitted when SELL was not offered is rejected,
\* whatever its token_id and whatever the judge says, and a candidate the
\* validator accepts has a side that was offered.
C36_OfferedSidesAgree ==
    hist.prev = "reflect_on_trade"
        => /\ (state.trade_info.t = "dict" /\ JudgedSide = Str("SELL")
                 /\ "SELL" \notin hist.offered)
                => (VerdictIs("error") /\ state.decision = "trade_more")
           /\ VerdictIs("success")
                => (JudgedSide.t = "str" /\ JudgedSide.v \in hist.offered)

C36_Witness ==
    /\ hist.prev = "reflect_on_trade"
    /\ hist.verdict
    /\ "SELL" \notin hist.offered
    /\ JudgedSide = Str("SELL")
    /\ state.positions = Positions([k \in {"t1"} |-> 0])
    /\ Get(state.trade_info, "token_id") = Str("t1")
    /\ WellFormed(state.trade_info)
    /\ VerdictIs("error")

\* C37: whenever trade_info or trade_decision is set, the Research and the
\* Analysis validators have both accepted earlier in the run; and a run
\* that ends in the fetch, Research or Analysis phase ends with trade_info,
\* trade_decision and confidence unset.
C37_TradeOnlyAfterValidation ==
    /\ (state.trade_info # PyNone \/ state.trade_decision # PyNone)
          => {"research", "analysis"} \subseteq hist.accepted
    /\ (pc = "__end__" /\ hist.prev \in ResearchNodes \cup AnalysisNodes)
          => TradeArtifacts(state) = <<PyNone, PyNone, PyNone>>

C37_Witness ==
    /\ state.trade_info # PyNone
    /\ state.trade_decision = Str("BUY")
    /\ hist.accepted = {"research", "analysis"}
    /\ hist.validations["analysis"] = 2
    /\ pc = "reflect_on_trade"

\* C38: whenever the Trade validator accepts a candidate, its size is a
\* number >= 0, and for side BUY it is at most available_funds.
C38_AcceptedSizeNonNegative ==
    (hist.prev = "reflect_on_trade" /\ VerdictIs("success"))
        => LET size == Get(state.trade_info, "size")
           IN  /\ size.t = "num"
               /\ size.v >= 0
               /\ JudgedSide = Str("BUY") => size.v <= state.available_funds

\* C39: when the workflow ends on the Trade validator's acceptance,
\* trade_decision is the accepted candidate's side and confidence is its
\* confidence, whatever was rejected or recorded by the `trade` tool before.
C39_OutputsMatchAccepted ==
    NormalCompletion
        => /\ state.trade_info = state.messages[Len(state.messages) - 1].tool_calls[1].args
           /\ state.trade_decision = Get(state.trade_info, "side")
           /\ state.confidence = Get(state.trade_info, "confidence")

C39_Witness ==
    /\ NormalCompletion
    /\ hist.tool_runs > 0
    /\ hist.validations["trade"] = 1
    /\ state.trade_decision = Str("BUY")
    /\ state.confidence = Num(90)
    /\ \E i \in 1..Len(state.messages) :
         /\ state.messages[i].type = "tool"
         /\ state.messages[i].name = "trade"
         /\ state.messages[i].status = "success"

\* C40: no step changes positions or available_funds: the values the
\* deterministic trade check compares against are the ones the run was
\* started with.
C40_InputsReadOnly ==
    [][/\ state'.positions = state.positions
       /\ state'.available_funds = state.available_funds]_vars

C40_Witness ==
    /\ NormalCompletion
    /\ hist.tool_runs > 0
    /\ JudgedSide = Str("SELL")
    /\ state.positions = Positions([k \in {"t1"} |-> 10])
    /\ state.available_funds = 10
    /\ \E i \in 1..Len(state.messages) :
         state.messages[i].type = "tool" /\ state.messages[i].name = "trade"
====
